---------------------------- MODULE Spec2Model ----------------------------
(***************************************************************************)
(* Model of the long-range-potential part of openmx_postprocess/openmx.c:  *)
(*   - Calc_Vlr: the per-process loop over source indices idx_P that calls *)
(*     the B-to-C grid redistribution once per index;                      *)
(*   - Data_Grid_Copy_B2C_XiwenLi: the redistribution itself, one MPI      *)
(*     process per element of Procs, non-blocking point-to-point messages; *)
(*   - Calc_MatrixElements_Vlr: the threaded quadrature of Hlr blocks.     *)
(* Real values are modelled by integers (exact arithmetic).                *)
(***************************************************************************)
EXTENDS Integers, Sequences, FiniteSets, TLC

(* ------------------------------ bounds -------------------------------- *)
numprocs == 2
NumGrid == 4
MaxCalls == 2
MaxField == 1
MaxMatomnum == 1
MaxMatomnumF == 1
MaxMatomnumS == 0
atomnum == 2
MaxFNAN == 1
MaxNO == 2
MaxNOLG == 4
MaxGridVol == 2
MaxSeed == 1
MaxThreads == 2
MaxQuadCalls == 2
MaxNgrid == 3

Procs == 0..(numprocs - 1)
Grid == 0..(NumGrid - 1)

(* What a read of memory the program never wrote, or outside a buffer,     *)
(* returns is whatever the heap holds there: any bit pattern of a double,  *)
(* a number left by an earlier buffer, an allocator header, a value that   *)
(* is no number. The model does not enumerate these words: a slot filled   *)
(* by such a read holds the mark Indeterminate, which stands for every     *)
(* word at once. A state with the mark in some slots stands for all the    *)
(* program states that agree with it elsewhere and hold any words in       *)
(* those slots; two marked slots need not hold the same word. The words    *)
(* the program computes from its inputs are never negative in the model,   *)
(* so the mark is kept apart from them as a negative number. Each          *)
(* undefined read is a choice of its own among GarbageVals.                *)
Indeterminate == 0 - 1
GarbageVals == {Indeterminate}

(* Arithmetic on words: a product or a sum with an indeterminate operand   *)
(* is indeterminate (whatever the other operand, zero included: the word   *)
(* may be an infinity or no number).                                       *)
Times(x, y) == IF x = Indeterminate \/ y = Indeterminate THEN Indeterminate ELSE x * y
Plus(x, y) == IF x = Indeterminate \/ y = Indeterminate THEN Indeterminate ELSE x + y

VARIABLES
  (* partition metadata and redistribution plan, per process *)
  ownerC,
  NN_B2C_S, NN_B2C_R, ID_NN_B2C_S, ID_NN_B2C_R, GP_B2C_S, GP_B2C_R,
  Num_Snd_Grid_B2C, Num_Rcv_Grid_B2C, Index_Snd_Grid_B2C, Index_Rcv_Grid_B2C,
  (* per-process atom counts, fields *)
  Matomnum, MatomnumF, MatomnumS, Vlr_Grid_B, Vlr_Grid, len_C,
  (* Calc_Vlr / Data_Grid_Copy_B2C_XiwenLi control and scratch, per process *)
  pc, idx_P, ID, Work_Array_Snd_Grid_B2C, Work_Array_Rcv_Grid_B2C,
  request_send, request_recv,
  (* MPI: messages sent and not yet matched, per (sender, receiver); protocol *)
  chan, eager,
  (* history: writes per data_C slot, out-of-range accesses *)
  writes, ub,
  (* quadrature inputs of the calling process myid *)
  myid, G2ID, WhatSpecies, Spe_Total_NO, FNAN, natn, M2G, F_G2M, NumOLG,
  GListTAtoms1, GListTAtoms2, MGridListAtom, GridVol, Orbs_Grid, Orbs_Grid_FNAN,
  (* the orbital values of every atom, as the orbital-value collaborator has them *)
  Orbital,
  (* per process: Set_Orbitals_Grid has returned *)
  orbs_set,
  (* Calc_MatrixElements_Vlr: blocks, task lists, per-thread scratch and position *)
  Hlr, q_idx_P, OneD2Mc_AN, OneD2h_AN, OneD_Nloop, Nthrds, AI_tmpH, Nloop, qpc,
  (* history: Hlr[idx_P] as seeded, then as each call for idx_P left it *)
  Hlr_hist,
  (* history of the current call, per pair (Mc_AN, h_AN): the threads that *)
  (* wrote its block, and the orbital arrays and indices its task read     *)
  task_runs, orb_reads,
  (* Set_Hlr: position and loop variable Mc_AN *)
  hpc, Hlr_Mc_AN,
  (* reciprocal-space solver of Calc_Vlr: group size, grid, reciprocal     *)
  (* lattice vectors, source positions, local count of partition B         *)
  nprocs, Ngrid1, Ngrid2, Ngrid3, rtv, Gxyz, My_NumGridB_CB,
  (* coefficient arrays per process (<<>> while not allocated), and the    *)
  (* history of the iterations of the coefficient loop                     *)
  ReVlrk, ImVlrk, khist

planVars == <<ownerC, NN_B2C_S, NN_B2C_R, ID_NN_B2C_S, ID_NN_B2C_R, GP_B2C_S,
              GP_B2C_R, Num_Snd_Grid_B2C, Num_Rcv_Grid_B2C, Index_Snd_Grid_B2C,
              Index_Rcv_Grid_B2C>>
quadInputs == <<myid, G2ID, WhatSpecies, Spe_Total_NO, FNAN, natn, M2G, F_G2M,
                NumOLG, GListTAtoms1, GListTAtoms2, MGridListAtom, GridVol,
                Orbs_Grid, Orbs_Grid_FNAN, Orbital, orbs_set>>
quadHist == <<task_runs, orb_reads>>
setHlrVars == <<hpc, Hlr_Mc_AN>>
quadVars == <<quadInputs, Hlr, q_idx_P, OneD2Mc_AN, OneD2h_AN, OneD_Nloop, Nthrds,
              AI_tmpH, Nloop, qpc, Hlr_hist, quadHist, setHlrVars>>
atomInputs == <<Matomnum, MatomnumF, MatomnumS, Vlr_Grid_B, len_C, eager>>
solverInputs == <<nprocs, Ngrid1, Ngrid2, Ngrid3, rtv, Gxyz, My_NumGridB_CB>>
solverVars == <<solverInputs, ReVlrk, ImVlrk, khist>>
fieldInputs == <<atomInputs, solverVars>>
scratchVars == <<ID, Work_Array_Snd_Grid_B2C, Work_Array_Rcv_Grid_B2C, request_send,
                 request_recv, chan, writes, ub>>
inputVars == <<fieldInputs, quadVars>>
b2cVars == <<planVars, fieldInputs, Vlr_Grid, pc, idx_P, ID,
             Work_Array_Snd_Grid_B2C, Work_Array_Rcv_Grid_B2C, request_send,
             request_recv, chan, writes, ub>>
vars == <<b2cVars, quadVars>>

(* ------------------------------ helpers ------------------------------- *)
Empty == [x \in {} |-> 0]

Min(S) == CHOOSE m \in S : \A x \in S : m <= x

RECURSIVE SetToSeq(_)
SetToSeq(S) == IF S = {} THEN <<>>
               ELSE LET m == Min(S) IN <<m>> \o SetToSeq(S \ {m})

ZeroBased(s) == [i \in 0..(Len(s) - 1) |-> s[i + 1]]

RECURSIVE SumTo(_, _)
SumTo(f, n) == IF n = 0 THEN 0 ELSE f[n] + SumTo(f, n - 1)

RECURSIVE SumSet(_, _)
SumSet(f, S) == IF S = {} THEN 0
                ELSE LET x == CHOOSE y \in S : TRUE IN f[x] + SumSet(f, S \ {x})

(* ---------------- partitions B and C, plan construction ---------------- *)
(* Partition B is the slab decomposition of Calc_Vlr (one grid row per     *)
(* slab unit); partition C is the input ownerC.                            *)
GNsAt(np, N1, N2D, p) == ((p * N2D + np - 1) \div np) * N1

SlabStart(p) == GNsAt(numprocs, 1, NumGrid, p)

ownerB(g) == CHOOSE p \in Procs : SlabStart(p) <= g /\ g < SlabStart(p + 1)

PointsB(p) == {g \in Grid : ownerB(g) = p}
PointsC(oc, p) == {g \in Grid : oc[g] = p}

BNof(g) == g - SlabStart(ownerB(g))
CNof(oc, g) == Cardinality({h \in PointsC(oc, oc[g]) : h > g})

GridOfC(p, CN) == CHOOSE g \in PointsC(ownerC, p) : CNof(ownerC, g) = CN

Moved(oc, p, q) == SetToSeq({g \in Grid : ownerB(g) = p /\ oc[g] = q})

(* Partner lists name ranks in rank order ("ascending", "every") or       *)
(* starting from the process itself ("rotated"). The lists of kind        *)
(* "every" name every rank of the group; the other kinds name the ranks   *)
(* with a non-zero count only.                                            *)
RankOrder(kind, p, dir) ==
  [i \in 1..numprocs |->
     IF kind = "rotated" THEN (p + dir * (i - 1) + numprocs) % numprocs
     ELSE i - 1]

PartnerList(kind, order, cnt) ==
  IF kind = "every" THEN order ELSE SelectSeq(order, LAMBDA q : cnt[q] # 0)

Offsets(lst, cnt) ==
  [i \in 0..Len(lst) |-> SumTo([j \in 1..Len(lst) |-> cnt[lst[j]]], i)]

OrderKinds == {"rotated", "ascending", "every"}

FieldB(sel, g, k) == sel * 10 * (g + 1) + k

LastIdx(p) == Matomnum[p] + MatomnumF[p] + MatomnumS[p] + 1

(* The plan for a given C partition and partner-list order. *)
PlanInit(oc, kind) ==
  LET nS == [p \in Procs |-> [q \in Procs |-> Len(Moved(oc, p, q))]]
      nR == [p \in Procs |-> [q \in Procs |-> Len(Moved(oc, q, p))]]
      lS == [p \in Procs |-> PartnerList(kind, RankOrder(kind, p, 1), nS[p])]
      lR == [p \in Procs |-> PartnerList(kind, RankOrder(kind, p, 0 - 1), nR[p])]
  IN
  /\ ownerC = oc
  /\ Num_Snd_Grid_B2C = nS
  /\ Num_Rcv_Grid_B2C = nR
  /\ ID_NN_B2C_S = [p \in Procs |-> ZeroBased(lS[p])]
  /\ ID_NN_B2C_R = [p \in Procs |-> ZeroBased(lR[p])]
  /\ NN_B2C_S = [p \in Procs |-> Len(lS[p])]
  /\ NN_B2C_R = [p \in Procs |-> Len(lR[p])]
  /\ GP_B2C_S = [p \in Procs |-> Offsets(lS[p], nS[p])]
  /\ GP_B2C_R = [p \in Procs |-> Offsets(lR[p], nR[p])]
  /\ Index_Snd_Grid_B2C =
       [p \in Procs |-> [q \in Procs |->
          [LN \in 0..(nS[p][q] - 1) |-> BNof(Moved(oc, p, q)[LN + 1])]]]
  /\ Index_Rcv_Grid_B2C =
       [p \in Procs |-> [q \in Procs |->
          [LN \in 0..(nR[p][q] - 1) |-> CNof(oc, Moved(oc, q, p)[LN + 1])]]]

(* Atom counts, the partition-B fields Get_Value_inReal leaves, lengths.   *)
FieldInit(oc, sel, ma, mf, ms, shortB, shortC) ==
  LET last == [p \in Procs |-> ma[p] + mf[p] + ms[p] + 1]
      lenB == [p \in Procs |->
                 LET n == Cardinality(PointsB(p))
                 IN IF n > shortB[p] THEN n - shortB[p] ELSE 0]
  IN
  /\ Matomnum = ma
  /\ MatomnumF = mf
  /\ MatomnumS = ms
  /\ Vlr_Grid_B =
       [p \in Procs |-> [k \in 1..last[p] |->
          [BN \in 0..(lenB[p] - 1) |-> FieldB(sel, SlabStart(p) + BN, k)]]]
  /\ len_C = [p \in Procs |->
                LET n == Cardinality(PointsC(oc, p))
                IN IF n > shortC THEN n - shortC ELSE 0]

(* -------------------- reciprocal-space solver (Calc_Vlr) ---------------- *)
SProcs == 0..(nprocs - 1)

(* GNs = ((myid*N2D+numprocs-1)/numprocs)*Ngrid1 with N2D = Ngrid3*Ngrid2 *)
GNs(p) == GNsAt(nprocs, Ngrid1, Ngrid3 * Ngrid2, p)

K3of(GN) == GN \div (Ngrid2 * Ngrid1)
K2of_DivByNgrid2(GN) == (GN - K3of(GN) * Ngrid2 * Ngrid1) \div Ngrid2
K2of(GN) == (GN - K3of(GN) * Ngrid2 * Ngrid1) \div Ngrid1
K1of(GN) == GN - K3of(GN) * Ngrid2 * Ngrid1 - K2of(GN) * Ngrid1

(* if (k<N/2) sk = k; else sk = k - N *)
Fold(k, N) == IF k < N \div 2 THEN k ELSE k - N

Gvec(GN) ==
  LET sk1 == Fold(K1of(GN), Ngrid1)
      sk2 == Fold(K2of(GN), Ngrid2)
      sk3 == Fold(K3of(GN), Ngrid3)
  IN [c \in 1..3 |-> sk1 * rtv[1][c] + sk2 * rtv[2][c] + sk3 * rtv[3][c]]

KKof(GN) == LET G == Gvec(GN) IN G[1] * G[1] + G[2] * G[2] + G[3] * G[3]

(* thx+thy+thz *)
Phase(idx, GN) ==
  LET G == Gvec(GN)
  IN (0 - G[1] * Gxyz[idx][1]) + (0 - G[2] * Gxyz[idx][2]) + (0 - G[3] * Gxyz[idx][3])

(* A guard that also takes the division at KK = 0. *)
Divides_NonNegative(KK) == KK >= 0

(* if(KK>0) *)
Divides(KK) == KK > 0

(* A coefficient sign*tmp0/den*exp(-sigma*sigma*den/2)*f(th), kept in      *)
(* symbolic form; sign 0 is the value 0.0.                                 *)
Coef(sign, den, f, th) == [sign |-> sign, den |-> den, f |-> f, th |-> th]
ZeroCoef == Coef(0, 1, "none", 0)

(* One iteration of the BN_CB loop for source index idx on process p. *)
SolvePoint(p, idx, BN) ==
  LET GN == BN + GNs(p)
      KK == KKof(GN)
  IN [idx |-> idx, BN_CB |-> BN, GN |-> GN,
      k |-> <<K1of(GN), K2of(GN), K3of(GN)>>, KK |-> KK,
      divided |-> Divides(KK),
      Re |-> IF Divides(KK) THEN Coef(1, KK, "cos", Phase(idx, GN)) ELSE ZeroCoef,
      Im |-> IF Divides(KK) THEN Coef(0 - 1, KK, "sin", Phase(idx, GN)) ELSE ZeroCoef]

SolveRow(p, idx) == [n \in 1..My_NumGridB_CB[p] |-> SolvePoint(p, idx, n - 1)]

RECURSIVE SolveRows(_, _)
SolveRows(p, n) == IF n = 0 THEN <<>> ELSE SolveRows(p, n - 1) \o SolveRow(p, n)

Identity3 == <<<<1, 0, 0>>, <<0, 1, 0>>, <<0, 0, 1>>>>
Skewed3 == <<<<1, 1, 0>>, <<0, 1, 0>>, <<0, 0, 1>>>>

(* The grid and group of the solver, and the source positions. *)
SolverInputs(np, N1, N2, N3, lat) ==
  /\ nprocs = np
  /\ Ngrid1 = N1 /\ Ngrid2 = N2 /\ Ngrid3 = N3
  /\ rtv = lat
  /\ Gxyz = [idx \in 1..(MaxMatomnum + MaxMatomnumF + MaxMatomnumS + 1) |->
               <<idx, 0, 1>>]
  /\ My_NumGridB_CB = [p \in Procs |->
       IF p < np THEN GNsAt(np, N1, N3 * N2, p + 1) - GNsAt(np, N1, N3 * N2, p)
       ELSE 0]

(* The coefficient arrays as the coefficient loops of Calc_Vlr leave them. *)
SolverDone ==
  /\ SolverInputs(numprocs, 1, NumGrid, 1, Identity3)
  /\ ReVlrk = [p \in Procs |-> [idx \in 1..LastIdx(p) |->
                 ZeroBased([n \in 1..My_NumGridB_CB[p] |-> SolvePoint(p, idx, n - 1).Re])]]
  /\ ImVlrk = [p \in Procs |-> [idx \in 1..LastIdx(p) |->
                 ZeroBased([n \in 1..My_NumGridB_CB[p] |-> SolvePoint(p, idx, n - 1).Im])]]
  /\ khist = [p \in Procs |-> SolveRows(p, LastIdx(p))]

(* No redistribution in progress: no scratch, no requests, no messages. *)
ScratchInit ==
  /\ ID = [p \in Procs |-> 0]
  /\ Work_Array_Snd_Grid_B2C = [p \in Procs |-> Empty]
  /\ Work_Array_Rcv_Grid_B2C = [p \in Procs |-> Empty]
  /\ request_send = [p \in Procs |-> <<>>]
  /\ request_recv = [p \in Procs |-> <<>>]
  /\ chan = [pr \in Procs \X Procs |-> <<>>]
  /\ ub = [p \in Procs |-> FALSE]

(* Control state at the start of the idx_P loop of Calc_Vlr. *)
RunInit ==
  /\ Vlr_Grid = [p \in Procs |-> [k \in 1..LastIdx(p) |-> Empty]]
  /\ pc = [p \in Procs |-> "enter"]
  /\ idx_P = [p \in Procs |-> 1]
  /\ writes = [p \in Procs |-> [k \in 1..LastIdx(p) |-> [CN \in 0..(len_C[p] - 1) |-> 0]]]
  /\ ScratchInit
  /\ SolverDone

(* No quadrature in progress and no quadrature inputs. *)
QuadOff ==
  /\ myid = 0
  /\ G2ID = Empty /\ WhatSpecies = Empty /\ Spe_Total_NO = Empty /\ FNAN = Empty
  /\ natn = Empty /\ M2G = Empty /\ F_G2M = Empty /\ NumOLG = Empty
  /\ GListTAtoms1 = Empty /\ GListTAtoms2 = Empty /\ MGridListAtom = Empty
  /\ GridVol = 1 /\ Orbs_Grid = Empty /\ Orbs_Grid_FNAN = Empty /\ Orbital = Empty
  /\ orbs_set = [p \in Procs |-> TRUE]
  /\ Hlr = Empty /\ q_idx_P = 0 /\ OneD2Mc_AN = Empty /\ OneD2h_AN = Empty
  /\ OneD_Nloop = 0 /\ Nthrds = 0 /\ AI_tmpH = Empty /\ Nloop = Empty
  /\ qpc = "idle" /\ Hlr_hist = Empty
  /\ task_runs = Empty /\ orb_reads = Empty
  /\ hpc = "off" /\ Hlr_Mc_AN = 0

InitWith(oc, kind, sel, ma, mf, ms, shortB, shortC) ==
  /\ PlanInit(oc, kind)
  /\ FieldInit(oc, sel, ma, mf, ms, shortB, shortC)
  /\ RunInit
  /\ QuadOff


(* --------------------- Data_Grid_Copy_B2C_XiwenLi ---------------------- *)
data_B(p) == Vlr_Grid_B[p][idx_P[p]]
data_C(p) == Vlr_Grid[p][idx_P[p]]

Store(f, g) == [x \in (DOMAIN f) \cup (DOMAIN g) |->
                  IF x \in DOMAIN g THEN g[x] ELSE f[x]]

(* The MPI_Irecv loop without its IDR!=myid test. *)
RecvRequests_WithSelf(p) ==
  [i \in 1..NN_B2C_R[p] |->
     LET IDR == ID_NN_B2C_R[p][i - 1]
     IN [src |-> IDR, gp |-> GP_B2C_R[p][i - 1],
         count |-> Num_Rcv_Grid_B2C[p][IDR], done |-> FALSE]]

(* MPI_Irecv loop: one request per entry of the receive partner list that  *)
(* is not the process itself.                                              *)
RecvRequests(p) ==
  LET all == [i \in 1..NN_B2C_R[p] |->
                LET IDR == ID_NN_B2C_R[p][i - 1]
                IN [src |-> IDR, gp |-> GP_B2C_R[p][i - 1],
                    count |-> Num_Rcv_Grid_B2C[p][IDR], done |-> FALSE]]
  IN SelectSeq(all, LAMBDA r : r.src # p)

(* Calc_Vlr loop head (Get_Value_inReal is an opaque step that leaves      *)
(* Vlr_Grid_B[idx_P] filled), then allocation and the MPI_Irecv loop.      *)
Enter(p) ==
  /\ pc[p] = "enter"
  /\ idx_P[p] <= LastIdx(p)
  /\ Work_Array_Snd_Grid_B2C' = [Work_Array_Snd_Grid_B2C EXCEPT ![p] = Empty]
  /\ Work_Array_Rcv_Grid_B2C' = [Work_Array_Rcv_Grid_B2C EXCEPT ![p] = Empty]
  /\ request_send' = [request_send EXCEPT ![p] = <<>>]
  /\ request_recv' = [request_recv EXCEPT ![p] = RecvRequests(p)]
  /\ ID' = [ID EXCEPT ![p] = 0]
  /\ pc' = [pc EXCEPT ![p] = "pack"]
  /\ UNCHANGED <<planVars, inputVars, Vlr_Grid, idx_P, chan, writes, ub>>

(* The offsets of the segment of send-list entry id whose value is read    *)
(* outside data_B.                                                         *)
PackOutsideReads(p, id) ==
  LET IDS == ID_NN_B2C_S[p][id]
      gp == GP_B2C_S[p][id]
  IN {off \in gp..(gp + Num_Snd_Grid_B2C[p][IDS] - 1) :
        Index_Snd_Grid_B2C[p][IDS][off - gp] \notin DOMAIN data_B(p)}

(* The segment packed for send-list entry id: offset gp+LN gets data_B[BN]; *)
(* junk gives what each read outside data_B returns.                       *)
PackedSegment(p, id, junk) ==
  LET IDS == ID_NN_B2C_S[p][id]
      gp == GP_B2C_S[p][id]
  IN [off \in gp..(gp + Num_Snd_Grid_B2C[p][IDS] - 1) |->
        LET BN == Index_Snd_Grid_B2C[p][IDS][off - gp]
        IN IF BN \in DOMAIN data_B(p) THEN data_B(p)[BN] ELSE junk[off]]

PackReadsOutside(p, id) ==
  LET IDS == ID_NN_B2C_S[p][id]
  IN \E LN \in 0..(Num_Snd_Grid_B2C[p][IDS] - 1) :
       Index_Snd_Grid_B2C[p][IDS][LN] \notin DOMAIN data_B(p)

(* The send loop without its IDS!=myid test. *)
PostsSend_Always(p, id) == TRUE

(* Whether iteration id of the send loop posts an MPI_Isend. *)
PostsSend(p, id) == ID_NN_B2C_S[p][id] # p

(* One iteration of the MPI_Isend loop: pack, then post unless self. *)
PackSend(p) ==
  /\ pc[p] = "pack"
  /\ ID[p] < NN_B2C_S[p]
  /\ \E junk \in [PackOutsideReads(p, ID[p]) -> GarbageVals] :
       LET id == ID[p]
           IDS == ID_NN_B2C_S[p][id]
           gp == GP_B2C_S[p][id]
           seg == PackedSegment(p, id, junk)
           msg == [data |-> [LN \in 0..(Num_Snd_Grid_B2C[p][IDS] - 1) |-> seg[gp + LN]],
                   req |-> Len(request_send[p]) + 1]
       IN /\ Work_Array_Snd_Grid_B2C' =
               [Work_Array_Snd_Grid_B2C EXCEPT ![p] = Store(@, seg)]
          /\ IF PostsSend(p, id)
             THEN /\ chan' = [chan EXCEPT ![<<p, IDS>>] = Append(@, msg)]
                  /\ request_send' = [request_send EXCEPT
                       ![p] = Append(@, [dst |-> IDS, count |-> Num_Snd_Grid_B2C[p][IDS],
                                    done |-> eager])]
             ELSE UNCHANGED <<chan, request_send>>
          /\ ub' = [ub EXCEPT ![p] = @ \/ PackReadsOutside(p, id)]
  /\ ID' = [ID EXCEPT ![p] = @ + 1]
  /\ UNCHANGED <<planVars, inputVars, Vlr_Grid, pc, idx_P,
                 Work_Array_Rcv_Grid_B2C, request_recv, writes>>

(* A wait-all that returns without waiting. *)
AllDone_NoWait(reqs) == TRUE

(* MPI_Waitall returns when every request of the array has completed. *)
AllDone(reqs) == \A i \in 1..Len(reqs) : reqs[i].done

(* if (NN_S!=0) MPI_Waitall(NN_S,request_send,stat_send) *)
WaitallSend(p) ==
  /\ pc[p] = "pack"
  /\ ID[p] = NN_B2C_S[p]
  /\ AllDone(request_send[p])
  /\ pc' = [pc EXCEPT ![p] = "waitR"]
  /\ UNCHANGED <<planVars, inputVars, Vlr_Grid, idx_P, ID, Work_Array_Snd_Grid_B2C,
                 Work_Array_Rcv_Grid_B2C, request_send, request_recv, chan, writes, ub>>

(* if (NN_R!=0) MPI_Waitall(NN_R,request_recv,stat_recv); free requests *)
WaitallRecv(p) ==
  /\ pc[p] = "waitR"
  /\ AllDone(request_recv[p])
  /\ request_send' = [request_send EXCEPT ![p] = <<>>]
  /\ request_recv' = [request_recv EXCEPT ![p] = <<>>]
  /\ pc' = [pc EXCEPT ![p] = "unpack"]
  /\ UNCHANGED <<planVars, inputVars, Vlr_Grid, idx_P, ID, Work_Array_Snd_Grid_B2C,
                 Work_Array_Rcv_Grid_B2C, chan, writes, ub>>

(* Offset of the segment read for receive-list entry id: the self entry    *)
(* uses GP_B2C_S[ID], a remote entry GP_B2C_R[ID]. Unset when GP_B2C_S has *)
(* no entry ID.                                                            *)
UnpackOffset(p, id) ==
  IF ID_NN_B2C_R[p][id] = p
  THEN (IF id \in DOMAIN GP_B2C_S[p] THEN <<GP_B2C_S[p][id]>> ELSE <<>>)
  ELSE <<GP_B2C_R[p][id]>>

UnpackBuffer(p, id) ==
  IF ID_NN_B2C_R[p][id] = p THEN Work_Array_Snd_Grid_B2C[p]
  ELSE Work_Array_Rcv_Grid_B2C[p]

UnpackDefined(p, id, LN) ==
  /\ UnpackOffset(p, id) # <<>>
  /\ (UnpackOffset(p, id)[1] + LN) \in DOMAIN UnpackBuffer(p, id)

UnpackValue(p, id, LN, junk) ==
  IF UnpackDefined(p, id, LN)
  THEN UnpackBuffer(p, id)[UnpackOffset(p, id)[1] + LN]
  ELSE junk[<<id, LN>>]

UnpackWrites(p) ==
  {w \in (0..(NN_B2C_R[p] - 1)) \X (0..NumGrid) :
     w[2] < Num_Rcv_Grid_B2C[p][ID_NN_B2C_R[p][w[1]]]}

UnpackTarget(p, w) == Index_Rcv_Grid_B2C[p][ID_NN_B2C_R[p][w[1]]][w[2]]

Later(w, v) == w[1] > v[1] \/ (w[1] = v[1] /\ w[2] >= v[2])

(* The reads of the unpack loop that hit a buffer slot never written or    *)
(* lie outside the buffer.                                                 *)
UndefinedReads(p) == {w \in UnpackWrites(p) : ~UnpackDefined(p, w[1], w[2])}

(* data_C after the unpack loop: every slot holds its last write; junk     *)
(* gives what each undefined read returns.                                 *)
Unpacked(p, junk) ==
  LET hit(CN) == {w \in UnpackWrites(p) : UnpackTarget(p, w) = CN}
      dom == (DOMAIN data_C(p)) \cup {CN \in 0..(len_C[p] - 1) : hit(CN) # {}}
  IN [CN \in dom |->
        IF hit(CN) = {} THEN data_C(p)[CN]
        ELSE LET w == CHOOSE w \in hit(CN) : \A v \in hit(CN) : Later(w, v)
             IN UnpackValue(p, w[1], w[2], junk)]

(* Some write of the unpack loop lands outside data_C. *)
UnpackOverruns(p) ==
  \E w \in UnpackWrites(p) : UnpackTarget(p, w) \notin 0..(len_C[p] - 1)

UnpackOutside(p) ==
  \/ UnpackOverruns(p)
  \/ \E w \in UnpackWrites(p) : ~UnpackDefined(p, w[1], w[2])

(* The unpack loop, the frees, the return and the loop increment. A write *)
(* outside data_C lands in the heap beyond the row: in the unused tail of *)
(* the row's block, and the call returns, or on the allocator's record of *)
(* the next block, and a free of the call aborts the process: the loop    *)
(* has run, nothing is returned.                                          *)
Unpack(p) ==
  /\ pc[p] = "unpack"
  /\ \E junk \in [UndefinedReads(p) -> GarbageVals] :
       Vlr_Grid' = [Vlr_Grid EXCEPT ![p][idx_P[p]] = Unpacked(p, junk)]
  /\ writes' = [writes EXCEPT ![p][idx_P[p]] =
       [CN \in DOMAIN @ |->
          @[CN] + Cardinality({w \in UnpackWrites(p) : UnpackTarget(p, w) = CN})]]
  /\ ub' = [ub EXCEPT ![p] = @ \/ UnpackOutside(p)]
  /\ \E abort \in (IF UnpackOverruns(p) THEN BOOLEAN ELSE {FALSE}) :
       IF abort
       THEN /\ pc' = [pc EXCEPT ![p] = "crashed"]
            /\ UNCHANGED <<Work_Array_Snd_Grid_B2C, Work_Array_Rcv_Grid_B2C, idx_P>>
       ELSE /\ Work_Array_Snd_Grid_B2C' = [Work_Array_Snd_Grid_B2C EXCEPT ![p] = Empty]
            /\ Work_Array_Rcv_Grid_B2C' = [Work_Array_Rcv_Grid_B2C EXCEPT ![p] = Empty]
            /\ idx_P' = [idx_P EXCEPT ![p] = @ + 1]
            /\ pc' = [pc EXCEPT ![p] = "enter"]
  /\ UNCHANGED <<planVars, inputVars, ID, request_send, request_recv, chan>>

(* End of the idx_P loop of Calc_Vlr. *)
ExitLoop(p) ==
  /\ pc[p] = "enter"
  /\ idx_P[p] > LastIdx(p)
  /\ pc' = [pc EXCEPT ![p] = "barrier"]
  /\ UNCHANGED <<planVars, inputVars, Vlr_Grid, idx_P, ID, Work_Array_Snd_Grid_B2C,
                 Work_Array_Rcv_Grid_B2C, request_send, request_recv, chan, writes, ub>>

(* MPI_Barrier(mpi_comm_level1) closing Calc_Vlr. *)
Barrier ==
  /\ \A p \in Procs : pc[p] = "barrier"
  /\ pc' = [p \in Procs |-> "done"]
  /\ UNCHANGED <<planVars, inputVars, Vlr_Grid, idx_P, ID, Work_Array_Snd_Grid_B2C,
                 Work_Array_Rcv_Grid_B2C, request_send, request_recv, chan, writes, ub>>

(* MPI matching: messages of one (sender, receiver, tag) pair are matched  *)
(* in the order sent, each with the receiver's pending request for that    *)
(* sender; the payload lands at the request's buffer offset.               *)
Pending(p, q) == {i \in 1..Len(request_recv[p]) :
                    request_recv[p][i].src = q /\ ~request_recv[p][i].done}

Match(q, p) ==
  /\ chan[<<q, p>>] # <<>>
  /\ Pending(p, q) # {}
  /\ LET m == Head(chan[<<q, p>>])
         i == Min(Pending(p, q))
         gp == request_recv[p][i].gp
     IN /\ Work_Array_Rcv_Grid_B2C' = [Work_Array_Rcv_Grid_B2C EXCEPT ![p] =
             Store(@, [off \in {gp + LN : LN \in DOMAIN m.data} |-> m.data[off - gp]])]
        /\ request_recv' = [request_recv EXCEPT ![p][i].done = TRUE]
        /\ request_send' = IF eager THEN request_send
                           ELSE [request_send EXCEPT ![q][m.req].done = TRUE]
  /\ chan' = [chan EXCEPT ![<<q, p>>] = Tail(@)]
  /\ UNCHANGED <<planVars, inputVars, Vlr_Grid, pc, idx_P, ID,
                 Work_Array_Snd_Grid_B2C, writes, ub>>

ProcStep(p) == \/ Enter(p)
               \/ PackSend(p)
               \/ WaitallSend(p)
               \/ WaitallRecv(p)
               \/ Unpack(p)
               \/ ExitLoop(p)

Next == \/ \E p \in Procs : ProcStep(p)
        \/ \E q \in Procs, p \in Procs : Match(q, p)
        \/ Barrier

(* ------------------- Calc_Vlr: the coefficient loops ------------------- *)
solverFrame == <<planVars, atomInputs, solverInputs, quadVars, Vlr_Grid, scratchVars>>

(* MPI_Barrier(mpi_comm_level1) opening Calc_Vlr. *)
StartBarrier ==
  /\ \A p \in SProcs : pc[p] = "start"
  /\ pc' = [p \in Procs |-> IF p \in SProcs THEN "alloc" ELSE pc[p]]
  /\ UNCHANGED <<solverFrame, idx_P, ReVlrk, ImVlrk, khist>>

(* allocation of arrays: one row per source index 1..Matomnum+MatomnumF+   *)
(* MatomnumS+1, no slot of a row assigned yet.                             *)
SolverAlloc(p) ==
  /\ pc[p] = "alloc"
  /\ ReVlrk' = [ReVlrk EXCEPT ![p] = [idx \in 1..LastIdx(p) |-> Empty]]
  /\ ImVlrk' = [ImVlrk EXCEPT ![p] = [idx \in 1..LastIdx(p) |-> Empty]]
  /\ idx_P' = [idx_P EXCEPT ![p] = 1]
  /\ pc' = [pc EXCEPT ![p] = "solve"]
  /\ UNCHANGED <<solverFrame, khist>>

(* One pass of the idx_P loop: the BN_CB loop over the local points. *)
SolveIndex(p) ==
  /\ pc[p] = "solve"
  /\ idx_P[p] <= LastIdx(p)
  /\ LET row == SolveRow(p, idx_P[p])
     IN /\ ReVlrk' = [ReVlrk EXCEPT ![p][idx_P[p]] =
                        ZeroBased([n \in 1..Len(row) |-> row[n].Re])]
        /\ ImVlrk' = [ImVlrk EXCEPT ![p][idx_P[p]] =
                        ZeroBased([n \in 1..Len(row) |-> row[n].Im])]
        /\ khist' = [khist EXCEPT ![p] = @ \o row]
  /\ idx_P' = [idx_P EXCEPT ![p] = @ + 1]
  /\ UNCHANGED <<solverFrame, pc>>

(* The coefficient loops are over; the real-space loop starts at idx_P=1. *)
SolveDone(p) ==
  /\ pc[p] = "solve"
  /\ idx_P[p] > LastIdx(p)
  /\ idx_P' = [idx_P EXCEPT ![p] = 1]
  /\ pc' = [pc EXCEPT ![p] = "enter"]
  /\ UNCHANGED <<solverFrame, ReVlrk, ImVlrk, khist>>

SolverStep(p) == \/ SolverAlloc(p)
                 \/ SolveIndex(p)
                 \/ SolveDone(p)

NextSolve == \/ StartBarrier
             \/ \E p \in Procs : SolverStep(p)

(* Calc_Vlr from its first statement to its return. *)
NextCalcVlr == \/ NextSolve
               \/ Next

(* ----------------------- Calc_MatrixElements_Vlr ----------------------- *)
Atoms == 1..atomnum
Species == 0..(MaxNO - 1)

LocalAtoms(own, p) == SetToSeq({G \in Atoms : own[G] = p})
NeighborAtoms(fn, G) == {((G - 1 + h) % atomnum) + 1 : h \in 0..fn[G]}
RemoteNeighbors(own, fn, p) ==
  SetToSeq({G \in Atoms : own[G] # p /\ \E L \in Atoms :
                             own[L] = p /\ G \in NeighborAtoms(fn, L)})
IndexIn(seq, x) == CHOOSE i \in 1..Len(seq) : seq[i] = x

OrbVal(osel, G, N, i) == IF osel = 0 THEN 1 ELSE 1 + ((G + N + 2 * i) % 3)

(* The inputs the quadrature of process myid reads: atoms, neighbour       *)
(* lists, support-point lists, orbital values and the seeded blocks.       *)
(* The orbital arrays of process myid as Set_Orbitals_Grid leaves them:   *)
(* the values of each local atom on its own points, and of each remote    *)
(* neighbour on the overlap points of the pair.                           *)
OrbsGridValues == [Mc \in DOMAIN M2G |-> Orbital[M2G[Mc]]]

OrbsGridFNANValues ==
  [Mc \in DOMAIN M2G |-> [h \in 0..FNAN[M2G[Mc]] |->
     IF G2ID[natn[M2G[Mc]][h]] = myid THEN Empty
     ELSE [Nog \in 0..(NumOLG[Mc][h] - 1) |->
             Orbital[natn[M2G[Mc]][h]][GListTAtoms2[Mc][h][Nog]]]]]

(* The quadrature inputs of process myid; set tells whether                *)
(* Set_Orbitals_Grid has run.                                              *)
QuadInitAt(own, spe, fn, nol, osel, gv, seed, set) ==
  LET loc == LocalAtoms(own, myid)
      rem == RemoteNeighbors(own, fn, myid)
      nb(G, h) == ((G - 1 + h) % atomnum) + 1
      NO(G) == spe[G] + 1
      olg(h) == IF h = 0 THEN MaxNOLG ELSE nol
      Nh(h, Nog) == (Nog + 2 * h) % MaxNOLG
  IN
  /\ G2ID = own
  /\ WhatSpecies = spe
  /\ Spe_Total_NO = [s \in Species |-> s + 1]
  /\ FNAN = fn
  /\ natn = [G \in Atoms |-> [h \in 0..fn[G] |-> nb(G, h)]]
  /\ M2G = [Mc \in 1..Len(loc) |-> loc[Mc]]
  /\ F_G2M = [G \in Atoms |->
                IF own[G] = myid THEN IndexIn(loc, G)
                ELSE IF \E i \in 1..Len(rem) : rem[i] = G
                     THEN Len(loc) + IndexIn(rem, G) ELSE 0 - 1]
  /\ NumOLG = [Mc \in 1..Len(loc) |-> [h \in 0..fn[loc[Mc]] |-> olg(h)]]
  /\ GListTAtoms1 = [Mc \in 1..Len(loc) |-> [h \in 0..fn[loc[Mc]] |->
                       [Nog \in 0..(olg(h) - 1) |-> (Nog + h) % MaxNOLG]]]
  /\ GListTAtoms2 = [Mc \in 1..Len(loc) |-> [h \in 0..fn[loc[Mc]] |->
                       [Nog \in 0..(olg(h) - 1) |-> Nh(h, Nog)]]]
  /\ MGridListAtom = [Mc \in 1..Len(loc) |->
                        [Nc \in 0..(MaxNOLG - 1) |->
                           IF len_C[myid] = 0 THEN 0
                           ELSE (Nc + Mc - 1) % len_C[myid]]]
  /\ GridVol = gv
  /\ Orbital = [G \in Atoms |-> [N \in 0..(MaxNOLG - 1) |->
                  [i \in 0..(NO(G) - 1) |-> OrbVal(osel, G, N, i)]]]
  /\ Orbs_Grid = IF set THEN OrbsGridValues ELSE Empty
  /\ Orbs_Grid_FNAN = IF set THEN OrbsGridFNANValues ELSE Empty
  /\ orbs_set = [p \in Procs |-> set]
  /\ Hlr = [k \in 1..LastIdx(myid) |-> [Mc \in 1..Len(loc) |->
              [h \in 0..fn[loc[Mc]] |->
                 [i \in 0..(NO(loc[Mc]) - 1) |->
                    [j \in 0..(NO(nb(loc[Mc], h)) - 1) |->
                       seed * (k + Mc + h + i + 2 * j)]]]]]
  /\ Hlr_hist = [k \in 1..LastIdx(myid) |-> <<Hlr[k]>>]
  /\ q_idx_P = 0 /\ OneD2Mc_AN = Empty /\ OneD2h_AN = Empty /\ OneD_Nloop = 0
  /\ Nthrds = 0 /\ AI_tmpH = Empty /\ Nloop = Empty /\ qpc = "idle"
  /\ task_runs = Empty /\ orb_reads = Empty

QuadInit(own, spe, fn, nol, osel, gv, seed) ==
  QuadInitAt(own, spe, fn, nol, osel, gv, seed, TRUE)

(* The one-dimensionalization with the inner loop stopping at h_AN < FNAN. *)
RECURSIVE OneD_SkipLast(_)
OneD_SkipLast(Mc) ==
  IF Mc > Matomnum[myid] THEN <<>>
  ELSE [n \in 1..FNAN[M2G[Mc]] |-> <<Mc, n - 1>>] \o OneD_SkipLast(Mc + 1)

(* One-dimensionalization of the (Mc_AN, h_AN) loops. *)
RECURSIVE OneD(_)
OneD(Mc) ==
  IF Mc > Matomnum[myid] THEN <<>>
  ELSE [n \in 1..(FNAN[M2G[Mc]] + 1) |-> <<Mc, n - 1>>] \o OneD(Mc + 1)

CallsMade == SumSet([k \in DOMAIN Hlr_hist |-> Len(Hlr_hist[k]) - 1], DOMAIN Hlr_hist)

Pairs == {pr \in (1..Matomnum[myid]) \X (0..MaxFNAN) : pr[2] <= FNAN[M2G[pr[1]]]}

(* Entry of Calc_MatrixElements_Vlr(idx): task lists, then the parallel    *)
(* region opens with n threads, each with a fresh scratch AI_tmpH.         *)
QuadEnter(idx, n) ==
  /\ qpc = "idle"
  /\ q_idx_P' = idx
  /\ OneD2Mc_AN' = ZeroBased([m \in 1..Len(OneD(1)) |-> OneD(1)[m][1]])
  /\ OneD2h_AN' = ZeroBased([m \in 1..Len(OneD(1)) |-> OneD(1)[m][2]])
  /\ OneD_Nloop' = Len(OneD(1))
  /\ Nthrds' = n
  /\ AI_tmpH' = [t \in 0..(n - 1) |-> Empty]
  /\ Nloop' = [t \in 0..(n - 1) |-> t]
  /\ qpc' = "parallel"
  /\ task_runs' = [pr \in Pairs |-> <<>>]
  /\ orb_reads' = [pr \in Pairs |-> <<>>]
  /\ UNCHANGED <<b2cVars, quadInputs, Hlr, Hlr_hist>>

(* A call of Calc_MatrixElements_Vlr(idx) from outside Set_Hlr. *)
QuadCall(idx, n) ==
  /\ hpc = "off"
  /\ CallsMade < MaxQuadCalls
  /\ QuadEnter(idx, n)
  /\ UNCHANGED setHlrVars

(* Set_Hlr: for (Mc_AN=1; Mc_AN<=Matomnum; Mc_AN++) Calc_MatrixElements_Vlr(Mc_AN) *)
SetHlrCall(n) ==
  /\ hpc = "loop"
  /\ Hlr_Mc_AN <= Matomnum[myid]
  /\ QuadEnter(Hlr_Mc_AN, n)
  /\ UNCHANGED setHlrVars

SetHlrReturn ==
  /\ hpc = "loop"
  /\ qpc = "idle"
  /\ Hlr_Mc_AN > Matomnum[myid]
  /\ hpc' = "returned"
  /\ UNCHANGED <<b2cVars, quadInputs, Hlr, q_idx_P, OneD2Mc_AN, OneD2h_AN, OneD_Nloop,
                 Nthrds, AI_tmpH, Nloop, qpc, Hlr_hist, quadHist, Hlr_Mc_AN>>

(* Whether element j of the row named by r (the array and the indices) is *)
(* inside the orbital array; the code indexes the arrays without a check.  *)
OrbInside(r, j) ==
  IF r.src = "Orbs_Grid"
  THEN /\ r.at[1] \in DOMAIN Orbs_Grid
       /\ r.at[2] \in DOMAIN Orbs_Grid[r.at[1]]
       /\ j \in DOMAIN Orbs_Grid[r.at[1]][r.at[2]]
  ELSE /\ r.at[1] \in DOMAIN Orbs_Grid_FNAN
       /\ r.at[2] \in DOMAIN Orbs_Grid_FNAN[r.at[1]]
       /\ r.at[3] \in DOMAIN Orbs_Grid_FNAN[r.at[1]][r.at[2]]
       /\ j \in DOMAIN Orbs_Grid_FNAN[r.at[1]][r.at[2]][r.at[3]]

(* An element of an orbital array; junk gives what each read outside the   *)
(* array returns when the process survives it.                             *)
OrbAt(r, j, junk) ==
  IF OrbInside(r, j)
  THEN IF r.src = "Orbs_Grid"
       THEN Orbs_Grid[r.at[1]][r.at[2]][j]
       ELSE Orbs_Grid_FNAN[r.at[1]][r.at[2]][r.at[3]][j]
  ELSE junk[<<r, j>>]

(* The owner atom's values at support point Nog: Orbs_Grid[Mc_AN][Nc]. *)
OwnerRead(Mc, h, Nog) ==
  [src |-> "Orbs_Grid", at |-> <<Mc, GListTAtoms1[Mc][h][Nog]>>]

(* The neighbour read with the ghost copy read at its first support point *)
(* instead of Nog.                                                         *)
NeighborRead_GhostAtFirst(Mc, h, Nog) ==
  LET Gh == natn[M2G[Mc]][h]
      Nh == GListTAtoms2[Mc][h][Nog]
  IN IF G2ID[Gh] = myid
     THEN [src |-> "Orbs_Grid", at |-> <<F_G2M[Gh], Nh>>]
     ELSE [src |-> "Orbs_Grid_FNAN", at |-> <<Mc, h, 0>>]

(* The neighbour read choosing the array by the owner atom's process. *)
NeighborRead_ByOwnerAtom(Mc, h, Nog) ==
  LET Gh == natn[M2G[Mc]][h]
      Nh == GListTAtoms2[Mc][h][Nog]
  IN IF G2ID[M2G[Mc]] = myid
     THEN [src |-> "Orbs_Grid", at |-> <<F_G2M[Gh], Nh>>]
     ELSE [src |-> "Orbs_Grid_FNAN", at |-> <<Mc, h, Nog>>]

(* The neighbour atom's values at support point Nog: Orbs_Grid[Mh_AN][Nh]  *)
(* when G2ID[Gh_AN]==myid, the ghost copy Orbs_Grid_FNAN[Mc_AN][h_AN][Nog] *)
(* otherwise.                                                              *)
NeighborRead(Mc, h, Nog) ==
  LET Gh == natn[M2G[Mc]][h]
      Nh == GListTAtoms2[Mc][h][Nog]
  IN IF G2ID[Gh] = myid
     THEN [src |-> "Orbs_Grid", at |-> <<F_G2M[Gh], Nh>>]
     ELSE [src |-> "Orbs_Grid_FNAN", at |-> <<Mc, h, Nog>>]

NeighborOrb(Mc, h, Nog, j, junk) == OrbAt(NeighborRead(Mc, h, Nog), j, junk)

(* The field read of support point Nog: Vlr_Grid[idx_P][MN]. *)
FieldRead(idx, Mc, h, Nog) ==
  [src |-> "Vlr_Grid", at |-> <<idx, MGridListAtom[Mc][GListTAtoms1[Mc][h][Nog]]>>]

FieldInside(r) == r.at[2] \in DOMAIN Vlr_Grid[myid][r.at[1]]

(* Vlr_Grid[idx_P][MN]; junk gives what a read outside the row returns     *)
(* when the process survives it.                                           *)
FieldAt(r, junk) ==
  IF FieldInside(r) THEN Vlr_Grid[myid][r.at[1]][r.at[2]] ELSE junk[<<r, 0>>]

(* The point term with the owner's orbital read at Nog instead of Nc. *)
PointTerm_OwnerAtNog(idx, Mc, h, Nog, i, j, junk) ==
  Times(Times(Times(GridVol, FieldAt(FieldRead(idx, Mc, h, Nog), junk)),
              Orbs_Grid[Mc][Nog][i]),
        NeighborOrb(Mc, h, Nog, j, junk))

(* AI_tmp_GVVG * Orbs_Grid[Mc_AN][Nc][i] * neighbour value, at one point.  *)
PointTerm(idx, Mc, h, Nog, i, j, junk) ==
  Times(Times(Times(GridVol, FieldAt(FieldRead(idx, Mc, h, Nog), junk)),
              OrbAt(OwnerRead(Mc, h, Nog), i, junk)),
        NeighborOrb(Mc, h, Nog, j, junk))

(* The scratch entry without the seeding loop: what the thread's earlier   *)
(* task left there, 0 where it left nothing.                               *)
ScratchSeed_Stale(t, idx, Mc, h, i, j) ==
  IF <<i, j>> \in DOMAIN AI_tmpH[t] THEN AI_tmpH[t][<<i, j>>] ELSE 0

(* AI_tmpH[i][j] of thread t after the seeding loop of a task:             *)
(* AI_tmpH[i][j] = Hlr[idx_P][Mc_AN][h_AN][i][j], whatever it held before. *)
ScratchSeed(t, idx, Mc, h, i, j) ==
  Store(AI_tmpH[t], [e \in {<<i, j>>} |-> Hlr[idx][Mc][h][i][j]])[<<i, j>>]

(* AI_tmpH[i][j] of thread t after the first n support points. *)
RECURSIVE Accumulated(_, _, _, _, _, _, _, _)
Accumulated(t, idx, Mc, h, i, j, n, junk) ==
  IF n = 0 THEN ScratchSeed(t, idx, Mc, h, i, j)
  ELSE Plus(Accumulated(t, idx, Mc, h, i, j, n - 1, junk),
            PointTerm(idx, Mc, h, n - 1, i, j, junk))

NO0(Mc) == Spe_Total_NO[WhatSpecies[M2G[Mc]]]
NO1(Mc, h) == Spe_Total_NO[WhatSpecies[natn[M2G[Mc]][h]]]

(* A write-back of the whole scratch, AI_MaxNO by AI_MaxNO entries. *)
TaskBlock_WholeScratch(t, idx, Mc, h, junk) ==
  [i \in 0..(MaxNO - 1) |-> [j \in 0..(MaxNO - 1) |->
     IF i < NO0(Mc) /\ j < NO1(Mc, h)
     THEN Accumulated(t, idx, Mc, h, i, j, NumOLG[Mc][h], junk)
     ELSE ScratchSeed_Stale(t, idx, Mc, h, i, j)]]

(* The entries i < NO0, j < NO1 of thread t's scratch after the Nog loop,  *)
(* which the task writes back to Hlr[idx_P][Mc_AN][h_AN].                  *)
TaskBlock(t, idx, Mc, h, junk) ==
  [i \in 0..(NO0(Mc) - 1) |-> [j \in 0..(NO1(Mc, h) - 1) |->
     Accumulated(t, idx, Mc, h, i, j, NumOLG[Mc][h], junk)]]

(* The reads of the task of pair (Mc_AN, h_AN) for source index idx that   *)
(* lie outside their array: the field value, the owner values i < NO0 and  *)
(* the neighbour values j < NO1 at every support point.                    *)
TaskOutsideReads(idx, Mc, h) ==
  {rd \in {<<OwnerRead(Mc, h, Nog), i>> :
             Nog \in 0..(NumOLG[Mc][h] - 1), i \in 0..(NO0(Mc) - 1)} \cup
          {<<NeighborRead(Mc, h, Nog), j>> :
             Nog \in 0..(NumOLG[Mc][h] - 1), j \in 0..(NO1(Mc, h) - 1)} :
     ~OrbInside(rd[1], rd[2])}
  \cup {<<FieldRead(idx, Mc, h, Nog), 0>> : Nog \in
          {N \in 0..(NumOLG[Mc][h] - 1) : ~FieldInside(FieldRead(idx, Mc, h, N))}}

(* A schedule in which every thread walks on to the very next iteration. *)
NextLoop_Stride1(nl) == nl + 1

(* schedule(static,1): thread t takes iterations t, t+Nthrds, ... *)
NextLoop(nl) == nl + Nthrds

(* The task of thread t runs to its write-back; junk gives what its reads  *)
(* outside the orbital arrays return.                                      *)
TaskCompletes(t, junk) ==
  /\ LET Mc == OneD2Mc_AN[Nloop[t]]
         h == OneD2h_AN[Nloop[t]]
         blk == TaskBlock(t, q_idx_P, Mc, h, junk)
     IN /\ Hlr' = [Hlr EXCEPT ![q_idx_P][Mc][h] = blk]
        /\ AI_tmpH' = [AI_tmpH EXCEPT ![t] =
             Store(@, [e \in (DOMAIN blk) \X (0..(NO1(Mc, h) - 1)) |-> blk[e[1]][e[2]]])]
  /\ LET Mc == OneD2Mc_AN[Nloop[t]]
         h == OneD2h_AN[Nloop[t]]
     IN /\ task_runs' = [task_runs EXCEPT ![<<Mc, h>>] = Append(@, t)]
        /\ orb_reads' = [orb_reads EXCEPT ![<<Mc, h>>] = Append(@,
             [Nog \in 0..(NumOLG[Mc][h] - 1) |->
                [owner |-> OwnerRead(Mc, h, Nog), neighbor |-> NeighborRead(Mc, h, Nog)]])]
  /\ Nloop' = [Nloop EXCEPT ![t] = NextLoop(@)]
  /\ UNCHANGED qpc

(* A read outside an array kills the process inside the Nog loop:          *)
(* no write-back, no return.                                               *)
TaskCrashes ==
  /\ qpc' = "crashed"
  /\ UNCHANGED <<Hlr, AI_tmpH, task_runs, orb_reads, Nloop>>

(* One iteration of the one-dimensionalized loop, run by thread t. A task  *)
(* with a read outside an array either crashes or goes on with             *)
(* whatever the reads return.                                              *)
QuadTask(t) ==
  /\ qpc = "parallel"
  /\ t \in DOMAIN Nloop
  /\ Nloop[t] < OneD_Nloop
  /\ LET outside == TaskOutsideReads(q_idx_P, OneD2Mc_AN[Nloop[t]], OneD2h_AN[Nloop[t]])
     IN \E crash \in (IF outside = {} THEN {FALSE} ELSE BOOLEAN) :
          IF crash THEN TaskCrashes
          ELSE \E junk \in [outside -> GarbageVals] : TaskCompletes(t, junk)
  /\ UNCHANGED <<b2cVars, quadInputs, q_idx_P, OneD2Mc_AN, OneD2h_AN, OneD_Nloop,
                 Nthrds, Hlr_hist, setHlrVars>>

(* End of the parallel region, frees, return. *)
QuadReturn ==
  /\ qpc = "parallel"
  /\ \A t \in DOMAIN Nloop : Nloop[t] >= OneD_Nloop
  /\ Hlr_hist' = [Hlr_hist EXCEPT ![q_idx_P] = Append(@, Hlr[q_idx_P])]
  /\ AI_tmpH' = Empty
  /\ Nloop' = Empty
  /\ OneD2Mc_AN' = Empty
  /\ OneD2h_AN' = Empty
  /\ qpc' = "idle"
  /\ Hlr_Mc_AN' = IF hpc = "loop" THEN Hlr_Mc_AN + 1 ELSE Hlr_Mc_AN
  /\ UNCHANGED <<b2cVars, quadInputs, Hlr, q_idx_P, OneD_Nloop, Nthrds, quadHist, hpc>>

NextQuad == \/ \E idx \in DOMAIN Hlr, n \in 1..MaxThreads : QuadCall(idx, n)
            \/ \E t \in 0..(MaxThreads - 1) : QuadTask(t)
            \/ QuadReturn

(* --------------- main: Set_Orbitals_Grid, Calc_Vlr, Set_Hlr ------------- *)
(* Set_Orbitals_Grid(0) on process p, then the call of Calc_Vlr: the       *)
(* orbital arrays of the process are filled, the remote neighbours' values *)
(* included.                                                               *)
SetOrbitalsGrid(p) ==
  /\ pc[p] = "main"
  /\ orbs_set' = [orbs_set EXCEPT ![p] = TRUE]
  /\ Orbs_Grid' = IF p = myid THEN OrbsGridValues ELSE Orbs_Grid
  /\ Orbs_Grid_FNAN' = IF p = myid THEN OrbsGridFNANValues ELSE Orbs_Grid_FNAN
  /\ pc' = [pc EXCEPT ![p] = "start"]
  /\ UNCHANGED <<planVars, fieldInputs, Vlr_Grid, idx_P, scratchVars>>
  /\ UNCHANGED <<myid, G2ID, WhatSpecies, Spe_Total_NO, FNAN, natn, M2G, F_G2M, NumOLG,
                 GListTAtoms1, GListTAtoms2, MGridListAtom, GridVol, Orbital>>
  /\ UNCHANGED <<Hlr, q_idx_P, OneD2Mc_AN, OneD2h_AN, OneD_Nloop, Nthrds, AI_tmpH,
                 Nloop, qpc, Hlr_hist, quadHist, setHlrVars>>

(* Calc_Vlr returning to main as soon as its own loop is over. *)
VlrReturned_NoBarrier(p) == pc[p] \in {"barrier", "done"}

(* Calc_Vlr has returned to main on process p: its closing barrier is past. *)
VlrReturned(p) == pc[p] = "done"

(* main calls Set_Hlr on process p when Calc_Vlr has returned. *)
MainSetHlr(p) ==
  /\ VlrReturned(p)
  /\ pc' = [pc EXCEPT ![p] = "set_hlr"]
  /\ hpc' = IF p = myid THEN "loop" ELSE hpc
  /\ Hlr_Mc_AN' = IF p = myid THEN 1 ELSE Hlr_Mc_AN
  /\ UNCHANGED <<planVars, fieldInputs, Vlr_Grid, idx_P, scratchVars>>
  /\ UNCHANGED <<quadInputs, Hlr, q_idx_P, OneD2Mc_AN, OneD2h_AN, OneD_Nloop, Nthrds,
                 AI_tmpH, Nloop, qpc, Hlr_hist, quadHist>>

NextMain == \/ \E p \in Procs : SetOrbitalsGrid(p)
            \/ NextCalcVlr
            \/ \E p \in Procs : MainSetHlr(p)
            \/ \E n \in 1..MaxThreads : SetHlrCall(n)
            \/ \E t \in 0..(MaxThreads - 1) : QuadTask(t)
            \/ QuadReturn
            \/ SetHlrReturn

(* ---------------------------- specifications --------------------------- *)
EqualCounts == [p \in Procs |-> MaxCalls - 1]
NoAtoms == [p \in Procs |-> 0]
FullRows == [p \in Procs |-> 0]
(* The row of at most one process is one element short. *)
ShortRows == {f \in [Procs -> 0..1] : Cardinality({p \in Procs : f[p] = 1}) <= 1}

(* Every process solves the same number of source indices; the plan of   *)
(* every partition C in every partner-list kind.                          *)
InitCalls(counts) ==
  \E oc \in [Grid -> Procs], kind \in OrderKinds, sel \in 0..MaxField :
    /\ eager \in BOOLEAN
    /\ InitWith(oc, kind, sel, counts, NoAtoms, NoAtoms, FullRows, 0)

(* One source index on every process, or MaxCalls. *)
Init == \E counts \in {NoAtoms, EqualCounts} : InitCalls(counts)

Spec == Init /\ [][Next]_vars


(* What the run-time guarantees about scheduling: every process is a       *)
(* running program, so a step of it that stays possible is taken (an      *)
(* MPI_Waitall whose requests have all completed returns); MPI's progress  *)
(* rule completes a posted receive and the send that matches it; the      *)
(* barrier releases the group once every process has reached it.           *)
Fairness == /\ \A p \in Procs : WF_vars(ProcStep(p))
            /\ \A q \in Procs, p \in Procs : WF_vars(Match(q, p))
            /\ WF_vars(Barrier)

(* Spec with every process scheduled and MPI making progress. *)
InitFair == InitCalls(EqualCounts)

SpecFair == InitFair /\ [][Next]_vars /\ Fairness

(* Per-process atom counts differ, as the atom distribution decides. *)
InitVlr ==
  \E oc \in [Grid -> Procs], sel \in 0..MaxField,
     ma \in [Procs -> 0..MaxMatomnum], mf \in [Procs -> 0..MaxMatomnumF],
     ms \in [Procs -> 0..MaxMatomnumS] :
    /\ eager \in BOOLEAN
    /\ InitWith(oc, "rotated", sel, ma, mf, ms, FullRows, 0)

SpecVlr == InitVlr /\ [][Next]_vars

(* One call on every process; the fields are shorter than the plan's index *)
(* lists assume.                                                           *)
InitBadPlan ==
  \E oc \in [Grid -> Procs], kind \in OrderKinds, sel \in 0..MaxField,
     shortB \in ShortRows, shortC \in 0..1 :
    /\ shortB # FullRows \/ shortC >= 1
    /\ eager \in BOOLEAN
    /\ InitWith(oc, kind, sel, NoAtoms, NoAtoms, NoAtoms, shortB, shortC)

SpecBadPlan == InitBadPlan /\ [][Next]_vars

AtomCount(own) == [p \in Procs |-> Len(LocalAtoms(own, p))]
AtomCountF(own, fn) == [p \in Procs |-> Len(RemoteNeighbors(own, fn, p))]

(* The state Calc_Vlr leaves when every slot holds its grid point's value, *)
(* with all partition-C points on process myid, and the quadrature inputs. *)
InitQuadWith(at, Mc) ==
  \E own \in [Atoms -> Procs], spe \in [Atoms -> Species],
     fn \in [Atoms -> 0..MaxFNAN], nol \in 0..MaxNOLG, osel \in 0..1,
     gv \in 1..MaxGridVol, seed \in 0..MaxSeed, sel \in 0..MaxField :
    /\ myid = 0
    /\ eager = FALSE
    /\ PlanInit([g \in Grid |-> myid], "rotated")
    /\ FieldInit(ownerC, sel, AtomCount(own), AtomCountF(own, fn), NoAtoms, FullRows, 0)
    /\ Vlr_Grid = [p \in Procs |-> [k \in 1..LastIdx(p) |->
                     [CN \in 0..(len_C[p] - 1) |-> FieldB(sel, GridOfC(p, CN), k)]]]
    /\ pc = [p \in Procs |-> "done"]
    /\ idx_P = [p \in Procs |-> LastIdx(p) + 1]
    /\ writes = [p \in Procs |-> [k \in 1..LastIdx(p) |-> [CN \in 0..(len_C[p] - 1) |-> 1]]]
    /\ ScratchInit
    /\ SolverDone
    /\ QuadInit(own, spe, fn, nol, osel, gv, seed)
    /\ hpc = at
    /\ Hlr_Mc_AN = Mc

InitQuad == InitQuadWith("off", 0)

SpecQuad == InitQuad /\ [][NextQuad]_vars

(* Set_Hlr called after Calc_Vlr, as main does. *)
InitSetHlr == InitQuadWith("loop", 1)

NextSetHlr == \/ \E n \in 1..MaxThreads : SetHlrCall(n)
              \/ \E t \in 0..(MaxThreads - 1) : QuadTask(t)
              \/ QuadReturn
              \/ SetHlrReturn

SpecSetHlr == InitSetHlr /\ [][NextSetHlr]_vars

(* Before the coefficient loops: nothing allocated, no coefficient        *)
(* computed, no field redistributed; the first np processes are at `at'.  *)
SolverStartAt(np, at) ==
  /\ Vlr_Grid = [p \in Procs |-> [k \in 1..LastIdx(p) |-> Empty]]
  /\ pc = [p \in Procs |-> IF p < np THEN at ELSE "off"]
  /\ idx_P = [p \in Procs |-> 1]
  /\ writes = [p \in Procs |-> [k \in 1..LastIdx(p) |-> [CN \in 0..(len_C[p] - 1) |-> 0]]]
  /\ ScratchInit
  /\ ReVlrk = [p \in Procs |-> <<>>]
  /\ ImVlrk = [p \in Procs |-> <<>>]
  /\ khist = [p \in Procs |-> <<>>]

(* Calc_Vlr is entered. *)
SolverStart(np) == SolverStartAt(np, "start") /\ QuadOff

(* The coefficient loops for every group size up to numprocs and every     *)
(* grid up to MaxNgrid points a side.                                      *)
InitSolve ==
  \E np \in 1..numprocs, N1 \in 1..MaxNgrid, N2 \in 1..MaxNgrid, N3 \in 1..MaxNgrid,
     lat \in {Identity3, Skewed3}, ma \in [Procs -> 0..MaxMatomnum] :
    /\ eager = FALSE
    /\ PlanInit([g \in Grid |-> 0], "rotated")
    /\ FieldInit([g \in Grid |-> 0], 0, ma, NoAtoms, NoAtoms, FullRows, 0)
    /\ SolverInputs(np, N1, N2, N3, lat)
    /\ SolverStart(np)

SpecSolve == InitSolve /\ [][NextSolve]_vars

(* A whole call of Calc_Vlr on the grid of the redistribution plan. *)
InitCalcVlr ==
  \E oc \in [Grid -> Procs], kind \in OrderKinds, sel \in 0..MaxField :
    /\ eager \in BOOLEAN
    /\ PlanInit(oc, kind)
    /\ FieldInit(oc, sel, EqualCounts, NoAtoms, NoAtoms, FullRows, 0)
    /\ SolverInputs(numprocs, 1, NumGrid, 1, Identity3)
    /\ SolverStart(numprocs)

SpecCalcVlr == InitCalcVlr /\ [][NextCalcVlr]_vars

(* The postprocess run of main from the call of Set_Orbitals_Grid on, on   *)
(* every process; the quadrature is followed on process myid.              *)
InitMain ==
  \E oc \in [Grid -> Procs], kind \in OrderKinds, me \in Procs,
     own \in [Atoms -> Procs], nf \in 0..MaxFNAN :
    /\ myid = me
    /\ eager \in BOOLEAN
    /\ PlanInit(oc, kind)
    /\ FieldInit(oc, MaxField, AtomCount(own),
                 AtomCountF(own, [G \in Atoms |-> nf]), NoAtoms, FullRows, 0)
    /\ SolverInputs(numprocs, 1, NumGrid, 1, Identity3)
    /\ SolverStartAt(numprocs, "main")
    /\ QuadInitAt(own, [G \in Atoms |-> (G - 1) % MaxNO], [G \in Atoms |-> nf],
                  MaxNOLG, 1, 1, 0, FALSE)
    /\ hpc = "off"
    /\ Hlr_Mc_AN = 0

SpecMain == InitMain /\ [][NextMain]_vars

(* ------------------------------ properties ----------------------------- *)
Returned(p, k) == idx_P[p] > k
AllReturned(k) == \A p \in Procs : Returned(p, k)

SourceValue(g, k) == Vlr_Grid_B[ownerB(g)][k][BNof(g)]

(* C1: after a B-to-C call has completed on all processes, every          *)
(* partition-C slot was written exactly once in that call and holds the    *)
(* data_B value of the same grid point taken from its partition-B owner.   *)
C1_EverySlotOnceFromOwner ==
  \A k \in 1..MaxCalls :
    AllReturned(k) =>
      \A p \in Procs : \A CN \in 0..(len_C[p] - 1) :
        /\ writes[p][k][CN] = 1
        /\ CN \in DOMAIN Vlr_Grid[p][k]
        /\ Vlr_Grid[p][k][CN] = SourceValue(GridOfC(p, CN), k)

FieldSum(F, k) ==
  SumSet([p \in Procs |-> SumSet(F[p][k], DOMAIN F[p][k])], Procs)

(* C2: conservation: after a B-to-C call the sum of the partition-C values *)
(* over all processes equals the sum of the partition-B values.            *)
C2_Conservation ==
  \A k \in 1..MaxCalls :
    AllReturned(k) => FieldSum(Vlr_Grid, k) = FieldSum(Vlr_Grid_B, k)

(* The C-to-B direction: the plan run backwards, slot Index_Snd[p][q][LN]  *)
(* of p taking the value of slot Index_Rcv[q][p][LN] of q.                 *)
CtoB(k, p) ==
  [BN \in DOMAIN Vlr_Grid_B[p][k] |->
     LET qs == {q \in Procs : \E LN \in DOMAIN Index_Snd_Grid_B2C[p][q] :
                                 Index_Snd_Grid_B2C[p][q][LN] = BN}
         q == CHOOSE q \in qs : TRUE
         LN == CHOOSE LN \in DOMAIN Index_Snd_Grid_B2C[p][q] :
                 Index_Snd_Grid_B2C[p][q][LN] = BN
     IN Vlr_Grid[q][k][Index_Rcv_Grid_B2C[q][p][LN]]]

(* C3: round trip: B-to-C followed by C-to-B reproduces the partition-B    *)
(* field on every process.                                                 *)
C3_RoundTrip ==
  \A k \in 1..MaxCalls :
    AllReturned(k) => \A p \in Procs : CtoB(k, p) = Vlr_Grid_B[p][k]

RecvIds(p) == 0..(NN_B2C_R[p] - 1)

(* C4: whatever the order of arrivals and however consecutive calls        *)
(* overlap, the data_C of call k holds only values of call k: a slot       *)
(* filled from a remote partner holds exactly the value that partner       *)
(* packed for it in its own call k, and a slot filled by the self copy     *)
(* holds a data_B value of the process's own call k.                       *)
C4_TimingIndependent ==
  \A p \in Procs : \A k \in 1..MaxCalls :
    Returned(p, k) =>
      \A id \in RecvIds(p) :
        LET q == ID_NN_B2C_R[p][id]
        IN \A LN \in 0..(Num_Rcv_Grid_B2C[p][q] - 1) :
             LET CN == Index_Rcv_Grid_B2C[p][q][LN]
             IN IF q # p
                THEN Vlr_Grid[p][k][CN] = Vlr_Grid_B[q][k][Index_Snd_Grid_B2C[q][p][LN]]
                ELSE \E BN \in DOMAIN Vlr_Grid_B[p][k] :
                        Vlr_Grid[p][k][CN] = Vlr_Grid_B[p][k][BN]

InCall(p, k) == idx_P[p] > k \/ (idx_P[p] = k /\ pc[p] # "enter")

(* C5: once every process has entered call k, every process eventually     *)
(* returns from call k.                                                    *)
C5_DeadlockFree ==
  \A k \in 1..MaxCalls :
    (\A p \in Procs : InCall(p, k)) ~> AllReturned(k)

(* With rendezvous sends, every process has returned from all its calls   *)
(* and left Calc_Vlr, and some process had a remote receive partner.       *)
C5_Witness ==
  /\ ~eager
  /\ \A p \in Procs : pc[p] = "done"
  /\ \E p \in Procs : \E id \in RecvIds(p) : ID_NN_B2C_R[p][id] # p

Finished(p) == pc[p] \in {"barrier", "done"}
Entered(p) == IF pc[p] \in {"enter", "barrier", "done"} THEN idx_P[p] - 1 ELSE idx_P[p]

(* C6: every process enters the redistribution the same number of times:   *)
(* once a process has left the loop of Calc_Vlr, no process has entered    *)
(* more calls than it did.                                                 *)
C6_Collective ==
  \A p \in Procs, q \in Procs : Finished(p) => Entered(q) <= Entered(p)

PlanMismatch(p) ==
  \/ GP_B2C_S[p][NN_B2C_S[p]] # Cardinality(DOMAIN Vlr_Grid_B[p][1])
  \/ GP_B2C_R[p][NN_B2C_R[p]] # len_C[p]

(* C8: with a plan whose sizes do not match the field lengths the call     *)
(* stops before pack, exchange and unpack, and writes no data_C element.   *)
C8_InvalidPlanStops ==
  \A p \in Procs :
    PlanMismatch(p) =>
      /\ idx_P[p] = 1
      /\ \A k \in DOMAIN Vlr_Grid[p] : Vlr_Grid[p][k] = Empty

(* C9: a second call for the same source index with the same field and    *)
(* orbital inputs leaves every block of that index as the first call left  *)
(* it.                                                                     *)
C9_Idempotent ==
  \A k \in DOMAIN Hlr_hist :
    Len(Hlr_hist[k]) >= 3 => Hlr_hist[k][3] = Hlr_hist[k][2]

SupportSum(k, Mc, h, i, j) ==
  LET Gc == M2G[Mc]
      Gh == natn[Gc][h]
  IN SumSet([Nog \in 0..(NumOLG[Mc][h] - 1) |->
               GridVol * Vlr_Grid[myid][k][MGridListAtom[Mc][GListTAtoms1[Mc][h][Nog]]]
                 * Orbital[Gc][GListTAtoms1[Mc][h][Nog]][i]
                 * Orbital[Gh][GListTAtoms2[Mc][h][Nog]][j]],
            0..(NumOLG[Mc][h] - 1))

ZeroSeeded(blocks) ==
  \A Mc \in DOMAIN blocks : \A h \in DOMAIN blocks[Mc] :
    \A i \in DOMAIN blocks[Mc][h] : \A j \in DOMAIN blocks[Mc][h][i] :
      blocks[Mc][h][i][j] = 0

(* C10: after one call on zero-seeded blocks every entry (i, j) of every   *)
(* task's block is the sum over the pair's NOLG support points of          *)
(* GridVol * Vlr_Grid[idx_P][MN] * owner orbital i * neighbour orbital j.  *)
C10_BlockIsQuadrature ==
  \A k \in DOMAIN Hlr_hist :
    (Len(Hlr_hist[k]) >= 2 /\ ZeroSeeded(Hlr_hist[k][1])) =>
      \A Mc \in DOMAIN Hlr_hist[k][2] : \A h \in DOMAIN Hlr_hist[k][2][Mc] :
        \A i \in 0..(NO0(Mc) - 1) : \A j \in 0..(NO1(Mc, h) - 1) :
          Hlr_hist[k][2][Mc][h][i][j] = SupportSum(k, Mc, h, i, j)

(* The 1x1 example: one orbital each, orbital value 1, four support points *)
(* with field values a, b, c, d, and the block is GridVol * (a+b+c+d).     *)
C10_Witness ==
  \E k \in DOMAIN Hlr_hist :
    /\ Len(Hlr_hist[k]) >= 2 /\ ZeroSeeded(Hlr_hist[k][1])
    /\ \E Mc \in DOMAIN Hlr_hist[k][2] :
         /\ NO0(Mc) = 1 /\ NumOLG[Mc][0] = 4
         /\ \A N \in 0..3 : Orbital[M2G[Mc]][N][0] = 1
         /\ Vlr_Grid[myid][k][0] # Vlr_Grid[myid][k][1]
         /\ Hlr_hist[k][2][Mc][0][0][0] =
              GridVol * SumSet([MN \in 0..3 |-> Vlr_Grid[myid][k][MN]], 0..3)
         /\ GridVol > 1

(* The entry (i, j) of the pair's block in a single-process configuration: *)
(* every atom is local, so both atoms' values come from Orbs_Grid, which   *)
(* then holds Orbital of every atom; n support points accumulated from 0.  *)
RECURSIVE SingleProcessEntry(_, _, _, _, _, _)
SingleProcessEntry(k, Mc, h, i, j, n) ==
  IF n = 0 THEN 0
  ELSE LET Nog == n - 1
           Nc == GListTAtoms1[Mc][h][Nog]
           Nh == GListTAtoms2[Mc][h][Nog]
           Gc == M2G[Mc]
       IN SingleProcessEntry(k, Mc, h, i, j, n - 1)
            + (GridVol * Vlr_Grid[myid][k][MGridListAtom[Mc][Nc]])
                * Orbital[Gc][Nc][i] * Orbital[natn[Gc][h]][Nh][j]

RemotePair(Mc, h) == G2ID[natn[M2G[Mc]][h]] # myid

(* C11: for a pair whose neighbour is owned by another process, the block  *)
(* computed from the ghost copy (one call, zero seed) equals the block of  *)
(* the single-process configuration.                                       *)
C11_GhostEqualsLocal ==
  \A k \in DOMAIN Hlr_hist :
    (Len(Hlr_hist[k]) >= 2 /\ ZeroSeeded(Hlr_hist[k][1])) =>
      \A Mc \in DOMAIN Hlr_hist[k][2] : \A h \in DOMAIN Hlr_hist[k][2][Mc] :
        RemotePair(Mc, h) =>
          \A i \in 0..(NO0(Mc) - 1) : \A j \in 0..(NO1(Mc, h) - 1) :
            Hlr_hist[k][2][Mc][h][i][j] =
              SingleProcessEntry(k, Mc, h, i, j, NumOLG[Mc][h])

(* A finished block of a pair with a remote neighbour, several support     *)
(* points, and neighbour orbital values that differ from point to point.   *)
C11_Witness ==
  \E k \in DOMAIN Hlr_hist :
    /\ Len(Hlr_hist[k]) >= 2 /\ ZeroSeeded(Hlr_hist[k][1])
    /\ \E Mc \in DOMAIN Hlr_hist[k][2] : \E h \in DOMAIN Hlr_hist[k][2][Mc] :
         /\ RemotePair(Mc, h)
         /\ NumOLG[Mc][h] >= 2
         /\ Orbs_Grid_FNAN[Mc][h][0][0] # Orbs_Grid_FNAN[Mc][h][1][0]
         /\ Hlr_hist[k][2][Mc][h][0][0] > 0

(* C12: when Set_Hlr has returned, for every source index p = 1..P whose   *)
(* field Calc_Vlr produced and redistributed on this process, and every    *)
(* local pair, the block of p has been accumulated from field p exactly    *)
(* once.                                                                   *)
C12_EverySolvedIndexAccumulated ==
  hpc = "returned" =>
    \A p \in DOMAIN Vlr_Grid[myid] :
      Pairs # {} => Len(Hlr_hist[p]) = 2

Threads == DOMAIN Nloop
BlockOf(pr) == Hlr[q_idx_P][pr[1]][pr[2]]
ScratchHolds(t, pr) ==
  \A i \in DOMAIN BlockOf(pr) : \A j \in DOMAIN BlockOf(pr)[i] :
    /\ <<i, j>> \in DOMAIN AI_tmpH[t]
    /\ AI_tmpH[t][<<i, j>>] = BlockOf(pr)[i][j]

(* C13: within one call every task (Mc_AN, h_AN) is run by at most one     *)
(* thread, by exactly one when the call has returned, and a thread's       *)
(* scratch accumulator holds the block of a task that thread ran, so no    *)
(* other thread wrote that block or that scratch.                          *)
C13_TasksDisjoint ==
  /\ \A pr \in DOMAIN task_runs : Len(task_runs[pr]) <= 1
  /\ qpc = "idle" =>
       \A pr \in DOMAIN task_runs : Len(task_runs[pr]) = 1
  /\ qpc = "parallel" =>
       \A t \in Threads :
         (\E pr \in DOMAIN task_runs : task_runs[pr] = <<t>>) =>
           \E pr \in DOMAIN task_runs : task_runs[pr] = <<t>> /\ ScratchHolds(t, pr)

(* A call with two threads and at least three tasks has returned, and      *)
(* both threads ran tasks.                                                 *)
C13_Witness ==
  /\ qpc = "idle" /\ Nthrds = 2
  /\ Cardinality(DOMAIN task_runs) >= 3
  /\ \A t \in 0..1 : \E pr \in DOMAIN task_runs : task_runs[pr] = <<t>>

FlatPair(n) == <<OneD2Mc_AN[n], OneD2h_AN[n]>>

(* C16: the flat task list has one entry per pair (Mc_AN, h_AN) with       *)
(* Mc_AN = 1..Matomnum and 0 <= h_AN <= FNAN[M2G[Mc_AN]], its length is    *)
(* the sum of FNAN[M2G[Mc_AN]] + 1, and the entries are in nested-loop     *)
(* order.                                                                  *)
C16_FlatteningBijection ==
  qpc = "parallel" =>
    /\ OneD_Nloop = SumTo([Mc \in 1..Matomnum[myid] |-> FNAN[M2G[Mc]] + 1],
                          Matomnum[myid])
    /\ DOMAIN OneD2Mc_AN = 0..(OneD_Nloop - 1)
    /\ DOMAIN OneD2h_AN = 0..(OneD_Nloop - 1)
    /\ \A n \in 0..(OneD_Nloop - 1) :
         /\ FlatPair(n)[1] \in 1..Matomnum[myid]
         /\ FlatPair(n)[2] \in 0..FNAN[M2G[FlatPair(n)[1]]]
    /\ \A Mc \in 1..Matomnum[myid] : \A h \in 0..FNAN[M2G[Mc]] :
         Cardinality({n \in 0..(OneD_Nloop - 1) : FlatPair(n) = <<Mc, h>>}) = 1
    /\ \A n \in 0..(OneD_Nloop - 1) : \A m \in 0..(OneD_Nloop - 1) :
         n < m => \/ FlatPair(n)[1] < FlatPair(m)[1]
                  \/ (FlatPair(n)[1] = FlatPair(m)[1] /\ FlatPair(n)[2] < FlatPair(m)[2])

(* Two local atoms with different neighbour counts have been flattened. *)
C16_Witness ==
  /\ qpc = "parallel"
  /\ Matomnum[myid] = 2
  /\ FNAN[M2G[1]] # FNAN[M2G[2]]
  /\ OneD_Nloop = 3

(* C17: in every task and at every support point the neighbour's values    *)
(* are read from Orbs_Grid[Mh_AN][Nh] exactly when G2ID[Gh_AN] is the      *)
(* calling process and from Orbs_Grid_FNAN[Mc_AN][h_AN][Nog] otherwise,    *)
(* and the owner's values from Orbs_Grid[Mc_AN][Nc].                       *)
C17_OrbitalSourceSelection ==
  \A pr \in DOMAIN orb_reads : \A r \in 1..Len(orb_reads[pr]) :
    LET Mc == pr[1]
        h == pr[2]
        Gh == natn[M2G[Mc]][h]
    IN /\ DOMAIN orb_reads[pr][r] = 0..(NumOLG[Mc][h] - 1)
       /\ \A Nog \in DOMAIN orb_reads[pr][r] :
            LET rd == orb_reads[pr][r][Nog]
            IN /\ rd.owner.src = "Orbs_Grid"
               /\ rd.owner.at = <<Mc, GListTAtoms1[Mc][h][Nog]>>
               /\ (rd.neighbor.src = "Orbs_Grid") <=> (G2ID[Gh] = myid)
               /\ (rd.neighbor.src = "Orbs_Grid_FNAN") <=> (G2ID[Gh] # myid)
               /\ G2ID[Gh] = myid =>
                    rd.neighbor.at = <<F_G2M[Gh], GListTAtoms2[Mc][h][Nog]>>
               /\ G2ID[Gh] # myid => rd.neighbor.at = <<Mc, h, Nog>>

(* One call has run a task with a remote neighbour and a task with a local *)
(* neighbour, each over at least one support point.                        *)
C17_Witness ==
  /\ \E pr \in DOMAIN orb_reads :
       /\ Len(orb_reads[pr]) = 1 /\ DOMAIN orb_reads[pr][1] # {}
       /\ G2ID[natn[M2G[pr[1]]][pr[2]]] # myid
  /\ \E pr \in DOMAIN orb_reads :
       /\ Len(orb_reads[pr]) = 1 /\ DOMAIN orb_reads[pr][1] # {}
       /\ G2ID[natn[M2G[pr[1]]][pr[2]]] = myid

NonSelf(p, lst, n) == Cardinality({id \in 0..(n - 1) : lst[id] # p})

(* C18: no posted receive or send names the process itself, no message     *)
(* travels from a process to itself, and once a loop has run the number    *)
(* of posted requests is the number of non-self entries of its partner     *)
(* list, within the request array.                                         *)
C18_NoSelfMessages ==
  \A p \in Procs :
    /\ \A i \in 1..Len(request_recv[p]) : request_recv[p][i].src # p
    /\ \A i \in 1..Len(request_send[p]) : request_send[p][i].dst # p
    /\ chan[<<p, p>>] = <<>>
    /\ Len(request_recv[p]) <= NN_B2C_R[p]
    /\ Len(request_send[p]) <= NN_B2C_S[p]
    /\ pc[p] \in {"pack", "waitR"} =>
         Len(request_recv[p]) = NonSelf(p, ID_NN_B2C_R[p], NN_B2C_R[p])
    /\ pc[p] = "waitR" =>
         Len(request_send[p]) = NonSelf(p, ID_NN_B2C_S[p], NN_B2C_S[p])

(* A process whose two partner lists hold itself and a remote partner has  *)
(* posted everything: one receive and one send.                            *)
C18_Witness ==
  \E p \in Procs :
    /\ pc[p] = "waitR"
    /\ NN_B2C_S[p] = 2 /\ NN_B2C_R[p] = 2
    /\ \E id \in 0..1 : ID_NN_B2C_S[p][id] = p
    /\ \E id \in 0..1 : ID_NN_B2C_R[p][id] = p
    /\ Len(request_send[p]) = 1 /\ Len(request_recv[p]) = 1

SendIdOf(p, q) == CHOOSE id \in 0..(NN_B2C_S[p] - 1) : ID_NN_B2C_S[p][id] = q

(* C19: in one call, on each process, a send is posted only when all       *)
(* receives for remote partners are posted and its own segment of the send *)
(* buffer is fully packed, and the unpack phase is reached only when every *)
(* remote segment of the receive buffer has been delivered.                *)
C19_PhaseOrdering ==
  \A p \in Procs :
    /\ (pc[p] \in {"pack", "waitR"} /\ request_send[p] # <<>>) =>
         Len(request_recv[p]) = NonSelf(p, ID_NN_B2C_R[p], NN_B2C_R[p])
    /\ pc[p] \in {"pack", "waitR"} =>
         \A i \in 1..Len(request_send[p]) :
           LET q == request_send[p][i].dst
               gp == GP_B2C_S[p][SendIdOf(p, q)]
           IN \A LN \in 0..(Num_Snd_Grid_B2C[p][q] - 1) :
                /\ (gp + LN) \in DOMAIN Work_Array_Snd_Grid_B2C[p]
                /\ Work_Array_Snd_Grid_B2C[p][gp + LN] =
                     data_B(p)[Index_Snd_Grid_B2C[p][q][LN]]
    /\ \A q \in Procs : \A i \in 1..Len(chan[<<p, q>>]) :
         DOMAIN chan[<<p, q>>][i].data = 0..(Num_Snd_Grid_B2C[p][q] - 1)
    /\ pc[p] = "unpack" =>
         \A id \in RecvIds(p) :
           ID_NN_B2C_R[p][id] # p =>
             \A LN \in 0..(Num_Rcv_Grid_B2C[p][ID_NN_B2C_R[p][id]] - 1) :
               (GP_B2C_R[p][id] + LN) \in DOMAIN Work_Array_Rcv_Grid_B2C[p]

(* A process is about to unpack data it received from a remote partner. *)
C19_Witness ==
  \E p \in Procs :
    /\ pc[p] = "unpack"
    /\ \E id \in RecvIds(p) : ID_NN_B2C_R[p][id] # p
    /\ \E id \in 0..(NN_B2C_S[p] - 1) : ID_NN_B2C_S[p][id] # p


(* C15: the flat indices GN = BN_CB + GNs visited by the processes of the  *)
(* solver are pairwise disjoint, lie in [0, N1*N2*N3), cover it once every *)
(* process has finished its coefficient loops, and each visited GN is      *)
(* decomposed into (k1,k2,k3) in [0,N1)x[0,N2)x[0,N3) with                 *)
(* GN = k3*N2*N1 + k2*N1 + k1.                                             *)
VisitedGN(p) == {khist[p][i].GN : i \in DOMAIN khist[p]}
SolveFinished == \A p \in SProcs : pc[p] = "enter"

C15_SlabOwnership ==
  /\ \A p \in SProcs, q \in SProcs : p # q => VisitedGN(p) \cap VisitedGN(q) = {}
  /\ \A p \in SProcs : VisitedGN(p) \subseteq 0..(Ngrid1 * Ngrid2 * Ngrid3 - 1)
  /\ SolveFinished =>
       UNION {VisitedGN(p) : p \in SProcs} = 0..(Ngrid1 * Ngrid2 * Ngrid3 - 1)
  /\ \A p \in SProcs : \A i \in DOMAIN khist[p] :
       LET r == khist[p][i]
       IN /\ r.k[1] \in 0..(Ngrid1 - 1)
          /\ r.k[2] \in 0..(Ngrid2 - 1)
          /\ r.k[3] \in 0..(Ngrid3 - 1)
          /\ r.GN = r.k[3] * Ngrid2 * Ngrid1 + r.k[2] * Ngrid1 + r.k[1]

C15_Witness ==
  /\ SolveFinished
  /\ nprocs = 2 /\ Ngrid1 = 2 /\ Ngrid2 = 3 /\ Ngrid3 = 3
  /\ \A p \in SProcs : VisitedGN(p) # {}
  /\ \E i \in DOMAIN khist[1] : khist[1][i].k = <<1, 2, 2>>


(* C14: for every source index and every local partition-B point the      *)
(* division by KK is taken only when KK > 0; when KK = 0 the real and the  *)
(* imaginary coefficient are stored as exactly 0; and every local slot is  *)
(* assigned exactly once per source index.                                 *)
AssignmentsOf(p, idx, BN) ==
  {i \in DOMAIN khist[p] : khist[p][i].idx = idx /\ khist[p][i].BN_CB = BN}

C14_ZeroModeGuarded ==
  \A p \in SProcs :
    /\ \A i \in DOMAIN khist[p] :
         LET r == khist[p][i]
         IN /\ r.divided => r.KK > 0
            /\ r.KK = 0 => /\ ReVlrk[p][r.idx][r.BN_CB].sign = 0
                           /\ ImVlrk[p][r.idx][r.BN_CB].sign = 0
            /\ Cardinality(AssignmentsOf(p, r.idx, r.BN_CB)) = 1
    /\ pc[p] = "enter" =>
         \A idx \in 1..LastIdx(p), BN \in 0..(My_NumGridB_CB[p] - 1) :
           Cardinality(AssignmentsOf(p, idx, BN)) = 1

C14_Witness ==
  /\ pc[0] = "enter"
  /\ LastIdx(0) = 2
  /\ \E i \in DOMAIN khist[0], j \in DOMAIN khist[0] :
       /\ khist[0][i].KK = 0 /\ ~khist[0][i].divided
       /\ khist[0][j].KK > 0 /\ khist[0][j].divided
       /\ khist[0][i].idx = 2 /\ khist[0][j].idx = 2


(* C20: when a call returns, every buffer it allocated has been released:  *)
(* after Calc_Vlr the coefficient arrays ReVlrk/ImVlrk, after the          *)
(* redistribution its scratch and request arrays, after the quadrature     *)
(* its task lists and per-thread scratch.                                  *)
CalcVlrReturned(p) == pc[p] = "done"
B2CReturned(p) == pc[p] \in {"enter", "barrier", "done"}
QuadReturned == qpc = "idle"

C20_BuffersReleased ==
  /\ \A p \in Procs :
       /\ CalcVlrReturned(p) => ReVlrk[p] = <<>> /\ ImVlrk[p] = <<>>
       /\ B2CReturned(p) => /\ Work_Array_Snd_Grid_B2C[p] = Empty
                            /\ Work_Array_Rcv_Grid_B2C[p] = Empty
                            /\ request_send[p] = <<>>
                            /\ request_recv[p] = <<>>
  /\ QuadReturned => /\ OneD2Mc_AN = Empty /\ OneD2h_AN = Empty
                     /\ AI_tmpH = Empty


(* C22: for any valid plan, wherever the process's own rank sits in the    *)
(* send and in the receive partner list, the unpack loop reads the values  *)
(* of the self entry from the send-buffer segment into which the process   *)
(* packed its own data_B values for itself: the segment starting at the    *)
(* send offset of the self entry of the send list, inside the send buffer. *)
SelfRecvIds(p) == {id \in RecvIds(p) : ID_NN_B2C_R[p][id] = p}

C22_SelfCopyFromOwnSegment ==
  \A p \in Procs : pc[p] = "unpack" =>
    \A id \in SelfRecvIds(p) :
      /\ UnpackOffset(p, id) = <<GP_B2C_S[p][SendIdOf(p, p)]>>
      /\ \A LN \in 0..(Num_Rcv_Grid_B2C[p][p] - 1) : UnpackDefined(p, id, LN)


(* C21: on every process Set_Hlr starts only after Set_Orbitals_Grid has   *)
(* set the process's orbital arrays and after the solve and the            *)
(* redistribution of every source field have completed on all processes;   *)
(* so a running quadrature reads only partition-C field slots that have    *)
(* been written and orbital values, ghost values included, that have been  *)
(* set. (A process that owns atoms and no partition-C point has no slot to *)
(* read: its field reads fall outside the row.)                            *)
InSetHlr(p) == pc[p] = "set_hlr"

FieldsComplete(q) ==
  /\ pc[q] \in {"done", "set_hlr"}
  /\ ReVlrk[q] # <<>>
  /\ \A k \in 1..LastIdx(q) : \A CN \in 0..(len_C[q] - 1) : writes[q][k][CN] >= 1

ReadIsSet(r) ==
  IF r.src = "Orbs_Grid"
  THEN /\ r.at[1] \in DOMAIN Orbs_Grid
       /\ r.at[2] \in DOMAIN Orbs_Grid[r.at[1]]
       /\ Orbs_Grid[r.at[1]][r.at[2]] = Orbital[M2G[r.at[1]]][r.at[2]]
  ELSE /\ r.at[1] \in DOMAIN Orbs_Grid_FNAN
       /\ r.at[2] \in DOMAIN Orbs_Grid_FNAN[r.at[1]]
       /\ r.at[3] \in DOMAIN Orbs_Grid_FNAN[r.at[1]][r.at[2]]
       /\ Orbs_Grid_FNAN[r.at[1]][r.at[2]][r.at[3]] =
            Orbital[natn[M2G[r.at[1]]][r.at[2]]][GListTAtoms2[r.at[1]][r.at[2]][r.at[3]]]

SeedBlocks(k) == Hlr_hist[k][Len(Hlr_hist[k])]

RECURSIVE TermSum(_, _, _, _, _, _)
TermSum(k, Mc, h, i, j, n) ==
  IF n = 0 THEN 0
  ELSE TermSum(k, Mc, h, i, j, n - 1) + PointTerm(k, Mc, h, n - 1, i, j, Empty)

SeedPlusTerms(seed, k, Mc, h) ==
  [i \in 0..(NO0(Mc) - 1) |-> [j \in 0..(NO1(Mc, h) - 1) |->
     seed[i][j] + TermSum(k, Mc, h, i, j, NumOLG[Mc][h])]]

C23_ScheduleIndependent ==
  /\ qpc = "parallel" =>
       \A pr \in DOMAIN task_runs : task_runs[pr] # <<>> =>
         Hlr[q_idx_P][pr[1]][pr[2]] =
           SeedPlusTerms(SeedBlocks(q_idx_P)[pr[1]][pr[2]], q_idx_P, pr[1], pr[2])
  /\ \A k \in DOMAIN Hlr_hist : \A n \in 2..Len(Hlr_hist[k]) :
       \A Mc \in DOMAIN Hlr_hist[k][n] : \A h \in DOMAIN Hlr_hist[k][n][Mc] :
         Hlr_hist[k][n][Mc][h] = SeedPlusTerms(Hlr_hist[k][n - 1][Mc][h], k, Mc, h)

(* A thread has run a task with a larger block and then one with a smaller *)
(* block: its scratch still holds a nonzero entry of the earlier task      *)
(* outside the block of the later one, and the seed of the later task is   *)
(* not zero.                                                               *)
LastRun(t) == FlatPair(Nloop[t] - Nthrds)

C23_Witness ==
  /\ qpc = "parallel"
  /\ \E t \in Threads :
       /\ Nloop[t] >= 2 * Nthrds
       /\ \E e \in DOMAIN AI_tmpH[t] :
            /\ e[1] >= NO0(LastRun(t)[1]) \/ e[2] >= NO1(LastRun(t)[1], LastRun(t)[2])
            /\ AI_tmpH[t][e] # 0
       /\ SeedBlocks(q_idx_P)[LastRun(t)[1]][LastRun(t)[2]][0][0] # 0
       /\ Nthrds = 2


(* C24: a step of a quadrature call for source index idx_P changes only    *)
(* entries Hlr[idx_P][Mc_AN][h_AN][i][j] of local pairs with i < NO0 and   *)
(* j < NO1, and leaves the blocks of every other source index, the field   *)
(* Vlr_Grid and the orbital arrays unchanged; a step of a redistribution   *)
(* call changes in the partition-C fields only slots of the field of the   *)
(* call that the receive index lists name, every write of its unpack loop  *)
(* lands inside data_C, and no step changes data_B or the plan.            *)
ListedSlots(p) ==
  {CN \in 0..(NumGrid - 1) :
     \E id \in RecvIds(p) : \E LN \in 0..(Num_Rcv_Grid_B2C[p][ID_NN_B2C_R[p][id]] - 1) :
        Index_Rcv_Grid_B2C[p][ID_NN_B2C_R[p][id]][LN] = CN}

EntryOf(blocks, Mc, h, i, j) ==
  IF /\ Mc \in DOMAIN blocks /\ h \in DOMAIN blocks[Mc]
     /\ i \in DOMAIN blocks[Mc][h] /\ j \in DOMAIN blocks[Mc][h][i]
  THEN <<blocks[Mc][h][i][j]>> ELSE <<>>

QuadFrame ==
  (qpc # "idle" \/ qpc' # "idle") =>
    /\ Vlr_Grid' = Vlr_Grid
    /\ Orbs_Grid' = Orbs_Grid
    /\ Orbs_Grid_FNAN' = Orbs_Grid_FNAN
    /\ DOMAIN Hlr' = DOMAIN Hlr
    /\ \A k \in DOMAIN Hlr : k # q_idx_P' => Hlr'[k] = Hlr[k]
    /\ \A Mc \in 0..(atomnum + 1), h \in 0..(MaxFNAN + 1), i \in 0..MaxNO, j \in 0..MaxNO :
         EntryOf(Hlr'[q_idx_P'], Mc, h, i, j) # EntryOf(Hlr[q_idx_P'], Mc, h, i, j) =>
           /\ <<Mc, h>> \in Pairs
           /\ i < NO0(Mc) /\ j < NO1(Mc, h)

B2CFrame ==
  /\ Vlr_Grid_B' = Vlr_Grid_B
  /\ planVars' = planVars
  /\ \A p \in Procs : \A k \in DOMAIN Vlr_Grid[p] :
       Vlr_Grid'[p][k] # Vlr_Grid[p][k] =>
         /\ pc[p] = "unpack" /\ k = idx_P[p]
         /\ DOMAIN Vlr_Grid[p][k] \subseteq DOMAIN Vlr_Grid'[p][k]
         /\ \A CN \in DOMAIN Vlr_Grid'[p][k] :
              (CN \notin DOMAIN Vlr_Grid[p][k] \/ Vlr_Grid'[p][k][CN] # Vlr_Grid[p][k][CN])
                => CN \in ListedSlots(p)
  /\ \A p \in Procs : (pc[p] = "unpack" /\ pc'[p] # "unpack") =>
       /\ ~UnpackOverruns(p)
       /\ pc'[p] # "crashed"

C24_Frame == [][QuadFrame /\ B2CFrame]_vars

(* Both kinds of call have acted: the fields are redistributed, with       *)
(* values that came from the other process, and Set_Hlr has accumulated    *)
(* the blocks of index 1 and left those of another index as they were.     *)
C24_Witness ==
  /\ hpc = "returned"
  /\ Len(Hlr_hist[1]) = 2 /\ Hlr_hist[1][2] # Hlr_hist[1][1]
  /\ \E k \in DOMAIN Hlr_hist : Len(Hlr_hist[k]) = 1 /\ Hlr[k] = Hlr_hist[k][1]
  /\ \E Mc \in DOMAIN Hlr[1] : \E h \in DOMAIN Hlr[1][Mc] :
       NO0(Mc) < MaxNO \/ NO1(Mc, h) < MaxNO
  /\ \E g \in Grid : ownerB(g) # myid /\ ownerC[g] = myid
  /\ \A k \in DOMAIN Vlr_Grid[myid] : DOMAIN Vlr_Grid[myid][k] = 0..(len_C[myid] - 1)

=============================================================================
